---- MODULE Spec2Model ----
(***************************************************************************)
(* Model of touch.c: the polling loop of a three-key / rotary-encoder HID  *)
(* touch device.  One action per step of main(): the power-on sample, the  *)
(* three key samples, the encoder sample and its busy wait, the patch of   *)
(* the six report templates, the three dispatch blocks and the LED commit. *)
(* Pin levels are inputs, drawn with \E at the step that reads the pin; a  *)
(* value TRUE means the line is asserted (it reads low).                   *)
(***************************************************************************)
EXTENDS Integers, Sequences, FiniteSets

VARIABLES
    pc,               \* position of main()
    hidReady,         \* HID_init() has run
    pinLED,           \* level of PIN_LED
    touchCount,       \* unsigned int touchCount
    lampLight,        \* int lampLight, as a flag
    keyPressed,       \* key1Pressed, key2Pressed, key3Pressed
    keyDirty,         \* int keyDirty, as a flag
    touchDownReport,  \* touchDownReport1..3, 8 bytes each
    touchUpReport,    \* touchUpReport1..3, 8 bytes each
    pixels,           \* pending NeoPixel frame, slot 0..2
    shown,            \* frame last sent to the strip
    trace,            \* calls to the HID and NeoPixel drivers in this cycle
    sample,           \* line levels read in this cycle
    pressed0,         \* keyPressed at the top of this cycle
    lamp0,            \* lampLight at the top of this cycle
    lastSent,         \* variant of the last report sent for each key
    everAsserted,     \* some line has been read asserted since power-on
    everOutput,       \* some report or per-slot LED write has been issued
    waitPolls,        \* reads of phase A made by the busy wait of this cycle
    prevAlone,        \* the previous cycle was "key 1 alone from all released"
    key1AtReset       \* what the power-on sample of key 1 read

vars == <<pc, hidReady, pinLED, touchCount, lampLight, keyPressed, keyDirty,
          touchDownReport, touchUpReport, pixels, shown, trace, sample,
          pressed0, lamp0, lastSent, everAsserted, everOutput, waitPolls,
          prevAlone, key1AtReset>>

MaxWaitPolls == 2

Keys == 1..3
Slots == 0..2

UIntMod == 65536

ActiveColor == <<25, 19, 0>>
AmbientColor == <<15, 5, 0>>
OffColor == <<0, 0, 0>>
BootColor == <<127, 127, 127>>

DownTemplate ==
    [k \in Keys |->
        CASE k = 1 -> <<1, 1, 3, 127, 250, 3, 244, 1>>
          [] k = 2 -> <<1, 2, 3, 127, 136, 19, 136, 19>>
          [] k = 3 -> <<1, 3, 3, 127, 243, 32, 57, 36>>]

UpTemplate ==
    [k \in Keys |-> <<0, k, 0, 0, 0, 0, 0, 0>>]

NoSample ==
    [key1 |-> FALSE, key2 |-> FALSE, key3 |-> FALSE,
     encSw |-> FALSE, encA |-> FALSE, encB |-> FALSE]

(***************************************************************************)
(* Driver calls, recorded in call order.                                   *)
(***************************************************************************)
WriteColorCall(slot, rgb) ==
    [op |-> "NEO_writeColor", arg |-> slot, kind |-> "led", data |-> rgb]

ClearPixelCall(slot) ==
    [op |-> "NEO_clearPixel", arg |-> slot, kind |-> "led", data |-> OffColor]

SendReportCall(k, variant, bytes) ==
    [op |-> "HID_sendReport", arg |-> k, kind |-> variant, data |-> bytes]

UpdateCall ==
    [op |-> "NEO_update", arg |-> 0, kind |-> "commit", data |-> <<>>]

(***************************************************************************)
(* NeoPixel driver: per-slot writes go to a pending frame, NEO_update      *)
(* sends the pending frame to the strip, NEO_clearAll clears and sends.    *)
(***************************************************************************)
NEO_writeColor(frame, slot, rgb) == [frame EXCEPT ![slot] = rgb]

NEO_update(frame) == frame

NEO_clearAll == [s \in Slots |-> OffColor]

Init ==
    /\ pc = "reset"
    /\ hidReady = FALSE
    /\ pinLED = TRUE
    /\ touchCount = 0
    /\ lampLight = FALSE
    /\ keyPressed = [k \in Keys |-> FALSE]
    /\ keyDirty = FALSE
    /\ touchDownReport = DownTemplate
    /\ touchUpReport = UpTemplate
    /\ pixels = [s \in Slots |-> OffColor]
    /\ shown = [s \in Slots |-> OffColor]
    /\ trace = <<>>
    /\ sample = NoSample
    /\ pressed0 = [k \in Keys |-> FALSE]
    /\ lamp0 = FALSE
    /\ lastSent = [k \in Keys |-> "none"]
    /\ everAsserted = FALSE
    /\ everOutput = FALSE
    /\ waitPolls = 0
    /\ prevAlone = FALSE
    /\ key1AtReset = "unread"

(***************************************************************************)
(* Power-on: key 1 held enters the bootloader, otherwise setup runs.       *)
(***************************************************************************)
\* BOOT_now: control passes to the bootloader and does not come back.
BOOT_now == pc' = "boot"

\* Variant: the key-1 check sits after HID_init instead of before it.
BootFlashAfterInit ==
    /\ pc = "reset"
    /\ BOOT_now
    /\ hidReady' = TRUE
    /\ shown' = [s \in Slots |-> BootColor]
    /\ everAsserted' = TRUE
    /\ key1AtReset' = "asserted"
    /\ UNCHANGED <<pinLED, touchCount, lampLight, keyPressed,
                   keyDirty, touchDownReport, touchUpReport, pixels, trace,
                   sample, pressed0, lamp0, lastSent, everOutput, prevAlone,
                   waitPolls>>

BootFlash ==
    /\ pc = "reset"
    /\ BOOT_now
    /\ shown' = [s \in Slots |-> BootColor]
    /\ everAsserted' = TRUE
    /\ key1AtReset' = "asserted"
    /\ UNCHANGED <<hidReady, pinLED, touchCount, lampLight, keyPressed,
                   keyDirty, touchDownReport, touchUpReport, pixels, trace,
                   sample, pressed0, lamp0, lastSent, everOutput, prevAlone, waitPolls>>

Setup ==
    /\ pc = "reset"
    /\ pc' = "top"
    /\ hidReady' = TRUE
    /\ pinLED' = FALSE
    /\ pixels' = NEO_clearAll
    /\ shown' = NEO_clearAll
    /\ key1AtReset' = "released"
    /\ UNCHANGED <<touchCount, lampLight, keyPressed, keyDirty,
                   touchDownReport, touchUpReport, trace, sample, pressed0,
                   lamp0, lastSent, everAsserted, everOutput, prevAlone, waitPolls>>

(***************************************************************************)
(* Top of the loop.                                                        *)
(***************************************************************************)
KeyOneAlone ==
    /\ trace # <<>>
    /\ \A k \in Keys : ~pressed0[k]
    /\ sample.key1 /\ ~sample.key2 /\ ~sample.key3
    /\ ~sample.encSw /\ ~sample.encA

\* Variant: touchCount is not cleared at the top of the cycle.
LoopTopNoReset ==
    /\ pc = "top"
    /\ pc' = "key1"
    /\ keyDirty' = FALSE
    /\ pinLED' = ~pinLED
    /\ trace' = <<>>
    /\ sample' = NoSample
    /\ pressed0' = keyPressed
    /\ lamp0' = lampLight
    /\ prevAlone' = KeyOneAlone
    /\ waitPolls' = 0
    /\ UNCHANGED <<hidReady, touchCount, lampLight, keyPressed,
                   touchDownReport, touchUpReport, pixels, shown, lastSent,
                   everAsserted, everOutput, key1AtReset>>

LoopTop ==
    /\ pc = "top"
    /\ pc' = "key1"
    /\ keyDirty' = FALSE
    /\ touchCount' = 0
    /\ pinLED' = ~pinLED
    /\ trace' = <<>>
    /\ sample' = NoSample
    /\ pressed0' = keyPressed
    /\ lamp0' = lampLight
    /\ prevAlone' = KeyOneAlone
    /\ waitPolls' = 0
    /\ UNCHANGED <<hidReady, lampLight, keyPressed, touchDownReport,
                   touchUpReport, pixels, shown, lastSent, everAsserted,
                   everOutput, key1AtReset>>

(***************************************************************************)
(* Edge detection of one key against its tracked flag.                     *)
(***************************************************************************)
\* Variant: level-triggered, a held key marks the cycle dirty again.
TrackKeyLevel(k, asserted) ==
    IF asserted
    THEN /\ keyPressed' = [keyPressed EXCEPT ![k] = TRUE]
         /\ keyDirty' = TRUE
         /\ touchCount' = (touchCount + 1) % UIntMod
    ELSE IF keyPressed[k]
         THEN /\ keyPressed' = [keyPressed EXCEPT ![k] = FALSE]
              /\ keyDirty' = TRUE
              /\ UNCHANGED touchCount
         ELSE UNCHANGED <<keyPressed, keyDirty, touchCount>>

\* Variant: a new press sets the count to one instead of adding one.
TrackKeySetOne(k, asserted) ==
    IF asserted
    THEN IF ~keyPressed[k]
         THEN /\ keyPressed' = [keyPressed EXCEPT ![k] = TRUE]
              /\ keyDirty' = TRUE
              /\ touchCount' = 1
         ELSE UNCHANGED <<keyPressed, keyDirty, touchCount>>
    ELSE IF keyPressed[k]
         THEN /\ keyPressed' = [keyPressed EXCEPT ![k] = FALSE]
              /\ keyDirty' = TRUE
              /\ UNCHANGED touchCount
         ELSE UNCHANGED <<keyPressed, keyDirty, touchCount>>

\* Variant: the release branch tests the flag the wrong way round.
TrackKeySticky(k, asserted) ==
    IF asserted
    THEN IF ~keyPressed[k]
         THEN /\ keyPressed' = [keyPressed EXCEPT ![k] = TRUE]
              /\ keyDirty' = TRUE
              /\ touchCount' = (touchCount + 1) % UIntMod
         ELSE UNCHANGED <<keyPressed, keyDirty, touchCount>>
    ELSE IF ~keyPressed[k]
         THEN /\ keyPressed' = [keyPressed EXCEPT ![k] = FALSE]
              /\ keyDirty' = TRUE
              /\ UNCHANGED touchCount
         ELSE UNCHANGED <<keyPressed, keyDirty, touchCount>>

TrackKey(k, asserted) ==
    IF asserted
    THEN IF ~keyPressed[k]
         THEN /\ keyPressed' = [keyPressed EXCEPT ![k] = TRUE]
              /\ keyDirty' = TRUE
              /\ touchCount' = (touchCount + 1) % UIntMod
         ELSE UNCHANGED <<keyPressed, keyDirty, touchCount>>
    ELSE IF keyPressed[k]
         THEN /\ keyPressed' = [keyPressed EXCEPT ![k] = FALSE]
              /\ keyDirty' = TRUE
              /\ UNCHANGED touchCount
         ELSE UNCHANGED <<keyPressed, keyDirty, touchCount>>

SampleKey1 ==
    /\ pc = "key1"
    /\ pc' = "key2"
    /\ \E p \in BOOLEAN :
        /\ TrackKey(1, p)
        /\ sample' = [sample EXCEPT !.key1 = p]
        /\ everAsserted' = (everAsserted \/ p)
    /\ UNCHANGED <<hidReady, pinLED, lampLight, touchDownReport,
                   touchUpReport, pixels, shown, trace, pressed0, lamp0,
                   lastSent, everOutput, prevAlone, key1AtReset, waitPolls>>

SampleKey2 ==
    /\ pc = "key2"
    /\ pc' = "key3"
    /\ \E p \in BOOLEAN :
        /\ TrackKey(2, p)
        /\ sample' = [sample EXCEPT !.key2 = p]
        /\ everAsserted' = (everAsserted \/ p)
    /\ UNCHANGED <<hidReady, pinLED, lampLight, touchDownReport,
                   touchUpReport, pixels, shown, trace, pressed0, lamp0,
                   lastSent, everOutput, prevAlone, key1AtReset, waitPolls>>

\* Variant: the encoder push-button is left out of the key-3 test.
SampleKey3PinOnly ==
    /\ pc = "key3"
    /\ pc' = "enc"
    /\ \E p \in BOOLEAN, sw \in BOOLEAN :
        /\ TrackKey(3, p)
        /\ sample' = [sample EXCEPT !.key3 = p, !.encSw = sw]
        /\ everAsserted' = (everAsserted \/ p \/ sw)
    /\ UNCHANGED <<hidReady, pinLED, lampLight, touchDownReport,
                   touchUpReport, pixels, shown, trace, pressed0, lamp0,
                   lastSent, everOutput, prevAlone, key1AtReset, waitPolls>>

SampleKey3 ==
    /\ pc = "key3"
    /\ pc' = "enc"
    /\ \E p \in BOOLEAN, sw \in BOOLEAN :
        /\ TrackKey(3, p \/ sw)
        /\ sample' = [sample EXCEPT !.key3 = p, !.encSw = sw]
        /\ everAsserted' = (everAsserted \/ p \/ sw)
    /\ UNCHANGED <<hidReady, pinLED, lampLight, touchDownReport,
                   touchUpReport, pixels, shown, trace, pressed0, lamp0,
                   lastSent, everOutput, prevAlone, key1AtReset, waitPolls>>

(***************************************************************************)
(* Encoder: phase A asserted reads phase B once, then waits for A to rest. *)
(***************************************************************************)
EncoderIdle ==
    /\ pc = "enc"
    /\ pc' = "patch"
    /\ UNCHANGED <<hidReady, pinLED, touchCount, lampLight, keyPressed,
                   keyDirty, touchDownReport, touchUpReport, pixels, shown,
                   trace, sample, pressed0, lamp0, lastSent, everAsserted,
                   everOutput, prevAlone, key1AtReset, waitPolls>>

\* Variant: the two directions are swapped.
EncoderTurnInverted ==
    /\ pc = "enc"
    /\ pc' = "wait"
    /\ \E b \in BOOLEAN :
        /\ lampLight' = b
        /\ sample' = [sample EXCEPT !.encA = TRUE, !.encB = b]
    /\ everAsserted' = TRUE
    /\ UNCHANGED <<hidReady, pinLED, touchCount, keyPressed, keyDirty,
                   touchDownReport, touchUpReport, pixels, shown, trace,
                   pressed0, lamp0, lastSent, everOutput, prevAlone,
                   key1AtReset, waitPolls>>

EncoderTurn ==
    /\ pc = "enc"
    /\ pc' = "wait"
    /\ \E b \in BOOLEAN :
        /\ lampLight' = ~b
        /\ sample' = [sample EXCEPT !.encA = TRUE, !.encB = b]
    /\ everAsserted' = TRUE
    /\ UNCHANGED <<hidReady, pinLED, touchCount, keyPressed, keyDirty,
                   touchDownReport, touchUpReport, pixels, shown, trace,
                   pressed0, lamp0, lastSent, everOutput, prevAlone, key1AtReset, waitPolls>>

\* Variant: the busy wait reads phase B again on every poll.
EncoderWaitResample ==
    /\ pc = "wait"
    /\ waitPolls < MaxWaitPolls
    /\ waitPolls' = waitPolls + 1
    /\ \E b \in BOOLEAN : lampLight' = ~b
    /\ UNCHANGED <<pc, hidReady, pinLED, touchCount, keyPressed,
                   keyDirty, touchDownReport, touchUpReport, pixels, shown,
                   trace, sample, pressed0, lamp0, lastSent, everAsserted,
                   everOutput, prevAlone, key1AtReset>>

EncoderWait ==
    /\ pc = "wait"
    /\ waitPolls < MaxWaitPolls
    /\ waitPolls' = waitPolls + 1
    /\ UNCHANGED <<pc, hidReady, pinLED, touchCount, lampLight, keyPressed,
                   keyDirty, touchDownReport, touchUpReport, pixels, shown,
                   trace, sample, pressed0, lamp0, lastSent, everAsserted,
                   everOutput, prevAlone, key1AtReset>>

\* Variant: the encoder branch forgets to mark the cycle dirty.
EncoderRestClean ==
    /\ pc = "wait"
    /\ pc' = "patch"
    /\ UNCHANGED <<hidReady, pinLED, touchCount, lampLight, keyPressed,
                   keyDirty, touchDownReport, touchUpReport, pixels, shown,
                   trace, sample, pressed0, lamp0, lastSent, everAsserted,
                   everOutput, prevAlone, key1AtReset, waitPolls>>

\* Variant: leaving the wait goes back to the phase-A test of the cycle.
EncoderRestRecheck ==
    /\ pc = "wait"
    /\ pc' = "enc"
    /\ keyDirty' = TRUE
    /\ UNCHANGED <<hidReady, pinLED, touchCount, lampLight, keyPressed,
                   touchDownReport, touchUpReport, pixels, shown, trace,
                   sample, pressed0, lamp0, lastSent, everAsserted,
                   everOutput, prevAlone, key1AtReset, waitPolls>>

EncoderRest ==
    /\ pc = "wait"
    /\ pc' = "patch"
    /\ keyDirty' = TRUE
    /\ UNCHANGED <<hidReady, pinLED, touchCount, lampLight, keyPressed,
                   touchDownReport, touchUpReport, pixels, shown, trace,
                   sample, pressed0, lamp0, lastSent, everAsserted,
                   everOutput, prevAlone, key1AtReset, waitPolls>>

(***************************************************************************)
(* Byte 0 of all six templates takes the touch count of this cycle.        *)
(***************************************************************************)
\* Variant: only the three down templates are patched.
PatchReportsDownOnly ==
    /\ pc = "patch"
    /\ pc' = "disp1"
    /\ touchDownReport' =
          [k \in Keys |-> [touchDownReport[k] EXCEPT ![1] = touchCount % 256]]
    /\ UNCHANGED <<hidReady, pinLED, touchCount, lampLight, keyPressed,
                   keyDirty, touchUpReport, pixels, shown, trace, sample,
                   pressed0, lamp0, lastSent, everAsserted, everOutput,
                   prevAlone, key1AtReset, waitPolls>>

PatchReports ==
    /\ pc = "patch"
    /\ pc' = "disp1"
    /\ touchDownReport' =
          [k \in Keys |-> [touchDownReport[k] EXCEPT ![1] = touchCount % 256]]
    /\ touchUpReport' =
          [k \in Keys |-> [touchUpReport[k] EXCEPT ![1] = touchCount % 256]]
    /\ UNCHANGED <<hidReady, pinLED, touchCount, lampLight, keyPressed,
                   keyDirty, pixels, shown, trace, sample, pressed0, lamp0,
                   lastSent, everAsserted, everOutput, prevAlone, key1AtReset, waitPolls>>

(***************************************************************************)
(* Dispatch block of one key: the LED slot write, then the report.         *)
(***************************************************************************)
\* Variant: the colour of a released key ignores the lamp mode.
KeyColorNoLamp(k) ==
    IF keyPressed[k] THEN ActiveColor ELSE OffColor

KeyColor(k) ==
    IF keyPressed[k] THEN ActiveColor
    ELSE IF lampLight THEN AmbientColor ELSE OffColor

\* Variant: a released key is always cleared, whatever the lamp mode.
LedCallNoLamp(k) ==
    IF keyPressed[k] THEN WriteColorCall(k - 1, ActiveColor)
    ELSE ClearPixelCall(k - 1)

LedCall(k) ==
    IF keyPressed[k] THEN WriteColorCall(k - 1, ActiveColor)
    ELSE IF lampLight THEN WriteColorCall(k - 1, AmbientColor)
    ELSE ClearPixelCall(k - 1)

\* Variant: the key-3 block sends the up template of key 2.
ReportCallCopyPaste(k) ==
    IF keyPressed[k] THEN SendReportCall(k, "down", touchDownReport[k])
    ELSE SendReportCall(k, "up", touchUpReport[IF k = 3 THEN 2 ELSE k])

ReportCall(k) ==
    IF keyPressed[k] THEN SendReportCall(k, "down", touchDownReport[k])
    ELSE SendReportCall(k, "up", touchUpReport[k])

\* Variant: the report is sent before the LED slot is written.
DispatchKeyReportFirst(k) ==
    /\ pixels' = NEO_writeColor(pixels, k - 1, KeyColor(k))
    /\ trace' = trace \o <<ReportCall(k), LedCall(k)>>
    /\ lastSent' = [lastSent EXCEPT ![k] = ReportCall(k).kind]
    /\ everOutput' = TRUE

DispatchKey(k) ==
    /\ pixels' = NEO_writeColor(pixels, k - 1, KeyColor(k))
    /\ trace' = trace \o <<LedCall(k), ReportCall(k)>>
    /\ lastSent' = [lastSent EXCEPT ![k] = ReportCall(k).kind]
    /\ everOutput' = TRUE

SkipDispatch ==
    /\ pc = "disp1"
    /\ ~keyDirty
    /\ pc' = "commit"
    /\ UNCHANGED <<hidReady, pinLED, touchCount, lampLight, keyPressed,
                   keyDirty, touchDownReport, touchUpReport, pixels, shown,
                   trace, sample, pressed0, lamp0, lastSent, everAsserted,
                   everOutput, prevAlone, key1AtReset, waitPolls>>

Dispatch1 ==
    /\ pc = "disp1"
    /\ keyDirty
    /\ pc' = "disp2"
    /\ DispatchKey(1)
    /\ UNCHANGED <<hidReady, pinLED, touchCount, lampLight, keyPressed,
                   keyDirty, touchDownReport, touchUpReport, shown, sample,
                   pressed0, lamp0, everAsserted, prevAlone, key1AtReset, waitPolls>>

Dispatch2 ==
    /\ pc = "disp2"
    /\ pc' = "disp3"
    /\ DispatchKey(2)
    /\ UNCHANGED <<hidReady, pinLED, touchCount, lampLight, keyPressed,
                   keyDirty, touchDownReport, touchUpReport, shown, sample,
                   pressed0, lamp0, everAsserted, prevAlone, key1AtReset, waitPolls>>

Dispatch3 ==
    /\ pc = "disp3"
    /\ pc' = "commit"
    /\ DispatchKey(3)
    /\ UNCHANGED <<hidReady, pinLED, touchCount, lampLight, keyPressed,
                   keyDirty, touchDownReport, touchUpReport, shown, sample,
                   pressed0, lamp0, everAsserted, prevAlone, key1AtReset, waitPolls>>

(***************************************************************************)
(* NEO_update: the pending frame goes to the strip; the cycle ends.        *)
(***************************************************************************)
\* Variant: NEO_update sits inside the if (keyDirty) block.
CommitLEDsOnlyDirty ==
    /\ pc = "commit"
    /\ pc' = "top"
    /\ IF keyDirty
       THEN /\ shown' = NEO_update(pixels)
            /\ trace' = Append(trace, UpdateCall)
       ELSE UNCHANGED <<shown, trace>>
    /\ UNCHANGED <<hidReady, pinLED, touchCount, lampLight, keyPressed,
                   keyDirty, touchDownReport, touchUpReport, pixels, sample,
                   pressed0, lamp0, lastSent, everAsserted, everOutput,
                   prevAlone, key1AtReset, waitPolls>>

CommitLEDs ==
    /\ pc = "commit"
    /\ pc' = "top"
    /\ shown' = NEO_update(pixels)
    /\ trace' = Append(trace, UpdateCall)
    /\ UNCHANGED <<hidReady, pinLED, touchCount, lampLight, keyPressed,
                   keyDirty, touchDownReport, touchUpReport, pixels, sample,
                   pressed0, lamp0, lastSent, everAsserted, everOutput,
                   prevAlone, key1AtReset, waitPolls>>

Next ==
    \/ BootFlash
    \/ Setup
    \/ LoopTop
    \/ SampleKey1
    \/ SampleKey2
    \/ SampleKey3
    \/ EncoderIdle
    \/ EncoderTurn
    \/ EncoderWait
    \/ EncoderRest
    \/ PatchReports
    \/ SkipDispatch
    \/ Dispatch1
    \/ Dispatch2
    \/ Dispatch3
    \/ CommitLEDs

Spec == Init /\ [][Next]_vars

(***************************************************************************)
(* The processor always executes the next statement, so every step of      *)
(* main() other than the two outcomes of the busy wait is weakly fair; how *)
(* long phase A stays asserted is up to the encoder.                       *)
(***************************************************************************)
RunStep ==
    \/ BootFlash
    \/ Setup
    \/ LoopTop
    \/ SampleKey1
    \/ SampleKey2
    \/ SampleKey3
    \/ EncoderIdle
    \/ EncoderTurn
    \/ PatchReports
    \/ SkipDispatch
    \/ Dispatch1
    \/ Dispatch2
    \/ Dispatch3
    \/ CommitLEDs

LiveSpec == Spec /\ WF_vars(RunStep)

(***************************************************************************)
(* Vocabulary of the properties.                                           *)
(***************************************************************************)
IsReport(e) == e.op = "HID_sendReport"
IsLedWrite(e) == e.kind = "led"

HidCalls == SelectSeq(trace, IsReport)
LedCalls == SelectSeq(trace, IsLedWrite)

\* The cycle has run to its end: the trace holds all of its driver calls.
CycleEnd == pc = "top" /\ trace # <<>>

\* Logical level sampled for key k in this cycle.
Sampled(k) ==
    CASE k = 1 -> sample.key1
      [] k = 2 -> sample.key2
      [] k = 3 -> sample.key3 \/ sample.encSw

PressedCount == Cardinality({k \in Keys : keyPressed[k]})

ReportsFor(k) == {i \in DOMAIN trace : IsReport(trace[i]) /\ trace[i].arg = k}
LedWritesFor(k) ==
    {i \in DOMAIN trace : IsLedWrite(trace[i]) /\ trace[i].arg = k - 1}

VariantOf(k) == IF keyPressed[k] THEN "down" ELSE "up"

\* The step about to be taken is the dispatch block of key k.
DispatchStep(k) ==
    /\ pc = (CASE k = 1 -> "disp1" [] k = 2 -> "disp2" [] k = 3 -> "disp3")
    /\ keyDirty

(***************************************************************************)
(* C1 - touch count accuracy: in a cycle that dispatches reports,          *)
(* touchCount and byte 0 of every dispatched report equal the number of    *)
(* keys tracked as pressed.                                                *)
(***************************************************************************)
C1_TouchCountAccuracy ==
    (CycleEnd /\ HidCalls # <<>>) =>
        /\ touchCount = PressedCount
        /\ \A i \in DOMAIN HidCalls : HidCalls[i].data[1] = PressedCount

(***************************************************************************)
(* C2 - a report is dispatched for key k in a cycle iff the tracked state  *)
(* of key k changed in that cycle, and then exactly one, of the variant    *)
(* the key moved to.                                                       *)
(***************************************************************************)
C2_ReportIffChanged ==
    CycleEnd =>
        \A k \in Keys :
            IF keyPressed[k] # pressed0[k]
            THEN /\ Cardinality(ReportsFor(k)) = 1
                 /\ \A i \in ReportsFor(k) : trace[i].kind = VariantOf(k)
            ELSE ReportsFor(k) = {}

(***************************************************************************)
(* C3 - report pairing: the reports of one key alternate down, up, down,   *)
(* ... starting with a down; no dispatch repeats the variant of the        *)
(* previous dispatch for the same key.                                     *)
(***************************************************************************)
C3_ReportPairing ==
    [][\A k \in Keys :
          DispatchStep(k) =>
              /\ lastSent'[k] # lastSent[k]
              /\ (lastSent[k] = "none" => lastSent'[k] = "down")]_vars

(***************************************************************************)
(* C4 - idempotence of unchanged input: a cycle in which every key is      *)
(* sampled at its tracked level and phase A is not asserted is not dirty,  *)
(* dispatches no report and writes no LED slot; while no line has ever     *)
(* been read asserted since power-on, no report and no slot write has      *)
(* been issued.                                                            *)
(***************************************************************************)
C4_UnchangedInputIsSilent ==
    /\ (/\ CycleEnd
        /\ \A k \in Keys : Sampled(k) = pressed0[k]
        /\ ~sample.encA)
       => (~keyDirty /\ HidCalls = <<>> /\ LedCalls = <<>>)
    /\ ~everAsserted => (~everOutput /\ HidCalls = <<>> /\ LedCalls = <<>>)

C4_Witness ==
    /\ CycleEnd
    /\ \A k \in Keys : Sampled(k) = pressed0[k]
    /\ ~sample.encA
    /\ pressed0[1] /\ pressed0[3]
    /\ everOutput

(***************************************************************************)
(* C5 - key 1 alone: from all keys released, a cycle that samples only     *)
(* key 1 pressed emits exactly one report, the down report of key 1 with   *)
(* count 1, and writes the active colour to slot 0; when key 1 is sampled  *)
(* released in the next cycle, that cycle emits the up report              *)
(* [0,1,0,0,0,0,0,0] and sets slot 0 according to lampLight.               *)
(***************************************************************************)
C5_KeyOneAloneScenario ==
    /\ (CycleEnd /\ KeyOneAlone) =>
          /\ HidCalls =
                <<SendReportCall(1, "down", <<1, 1, 3, 127, 250, 3, 244, 1>>)>>
          /\ \E i \in LedWritesFor(1) : trace[i].data = ActiveColor
    /\ (CycleEnd /\ prevAlone /\ ~sample.key1) =>
          /\ \E i \in ReportsFor(1) :
                trace[i].data = <<0, 1, 0, 0, 0, 0, 0, 0>>
          /\ \E i \in LedWritesFor(1) :
                trace[i].data = (IF lampLight THEN AmbientColor ELSE OffColor)

(***************************************************************************)
(* C6 - three keys: from all three keys tracked released, a cycle that     *)
(* samples all three pressed dispatches exactly three reports, all down    *)
(* variants, for keys 1, 2, 3 in that order, each with contact count 3.    *)
(***************************************************************************)
C6_ThreeKeysScenario ==
    (CycleEnd /\ \A k \in Keys : ~pressed0[k] /\ Sampled(k)) =>
        /\ Len(HidCalls) = 3
        /\ \A i \in 1..3 :
              /\ HidCalls[i].arg = i
              /\ HidCalls[i].kind = "down"
              /\ HidCalls[i].data[2] = i
              /\ HidCalls[i].data[1] = 3

C6_Witness ==
    /\ CycleEnd
    /\ \A k \in Keys : ~pressed0[k] /\ Sampled(k)
    /\ Len(HidCalls) = 3

(***************************************************************************)
(* C7 - dispatch order: within a cycle the reports appear in strictly      *)
(* increasing key order, at most one per key; the LED write of key k comes *)
(* immediately before the report of key k and, for k > 1, immediately      *)
(* after the report of key k-1.                                            *)
(***************************************************************************)
C7_DispatchOrder ==
    /\ \A i, j \in DOMAIN trace :
          (i < j /\ IsReport(trace[i]) /\ IsReport(trace[j]))
              => trace[i].arg < trace[j].arg
    /\ \A i \in DOMAIN trace :
          IsReport(trace[i]) =>
              /\ i > 1
              /\ IsLedWrite(trace[i - 1])
              /\ trace[i - 1].arg = trace[i].arg - 1
    /\ \A i \in DOMAIN trace :
          IsLedWrite(trace[i]) =>
              IF trace[i].arg = 0
              THEN i = 1
              ELSE /\ i > 1
                   /\ IsReport(trace[i - 1])
                   /\ trace[i - 1].arg = trace[i].arg
    /\ CycleEnd =>
          \A k \in Keys :
              Cardinality(LedWritesFor(k)) = Cardinality(ReportsFor(k))

C7_Witness ==
    /\ CycleEnd
    /\ Len(HidCalls) = 3
    /\ Len(LedCalls) = 3
    /\ keyPressed[2] /\ ~keyPressed[1]

(***************************************************************************)
(* C8 - no stale contact count: from the patch to the end of the cycle     *)
(* byte 0 of all six templates equals the touchCount of this cycle, and    *)
(* every report dispatched in the cycle carries that value in byte 0.      *)
(***************************************************************************)
C8_NoStaleContactCount ==
    /\ pc \in {"disp1", "disp2", "disp3", "commit"} =>
          \A k \in Keys :
              /\ touchDownReport[k][1] = touchCount
              /\ touchUpReport[k][1] = touchCount
    /\ \A i \in DOMAIN trace :
          IsReport(trace[i]) => trace[i].data[1] = touchCount

C8_Witness ==
    /\ CycleEnd
    /\ touchCount = 1
    /\ \E i \in DOMAIN trace : IsReport(trace[i]) /\ trace[i].kind = "up"
    /\ \E k \in Keys : keyPressed[k] /\ pressed0[k]

(***************************************************************************)
(* C9 - colour consistency: in a cycle in which lampLight changes, every   *)
(* key tracked as not pressed has its LED slot written in that cycle,      *)
(* before the commit, with ambient (lampLight true) or off (false).        *)
(***************************************************************************)
C9_ColorConsistency ==
    (CycleEnd /\ lampLight # lamp0) =>
        /\ trace[Len(trace)] = UpdateCall
        /\ \A k \in Keys :
              ~keyPressed[k] =>
                  \E i \in LedWritesFor(k) :
                      /\ i < Len(trace)
                      /\ trace[i].data =
                            (IF lampLight THEN AmbientColor ELSE OffColor)

C9_Witness ==
    /\ CycleEnd
    /\ lampLight # lamp0
    /\ keyPressed = pressed0
    /\ ~keyPressed[1] /\ ~keyPressed[2] /\ keyPressed[3]

(***************************************************************************)
(* C10 - colour mapping: a dirty cycle writes each of the three LED slots  *)
(* once, slot k-1 with the active colour if key k is pressed, the ambient  *)
(* colour if it is not and lampLight is true, and a clear if it is not and *)
(* lampLight is false; a cycle that is not dirty writes no slot.           *)
(***************************************************************************)
C10_ColorMapping ==
    CycleEnd =>
        IF keyDirty
        THEN \A k \in Keys :
                /\ Cardinality(LedWritesFor(k)) = 1
                /\ \A i \in LedWritesFor(k) :
                      trace[i] =
                         (CASE keyPressed[k] ->
                                  WriteColorCall(k - 1, <<25, 19, 0>>)
                            [] ~keyPressed[k] /\ lampLight ->
                                  WriteColorCall(k - 1, <<15, 5, 0>>)
                            [] ~keyPressed[k] /\ ~lampLight ->
                                  ClearPixelCall(k - 1))
        ELSE LedCalls = <<>>

C10_Witness ==
    /\ CycleEnd
    /\ keyDirty
    /\ keyPressed[1] /\ pressed0[1]
    /\ ~keyPressed[2] /\ ~pressed0[2]
    /\ lampLight

(***************************************************************************)
(* C11 - startup branch: when the power-on sample reads key 1 asserted,    *)
(* all LEDs are lit and the bootloader is entered, and then the HID stack  *)
(* is never initialised, the loop is never entered and no report is ever   *)
(* dispatched; when it reads key 1 released, the bootloader is never       *)
(* entered afterwards, however key 1 is pressed during the loop.           *)
(***************************************************************************)
C11_StartupBranch ==
    /\ key1AtReset = "asserted" =>
          /\ pc = "boot"
          /\ ~hidReady
          /\ \A s \in Slots : shown[s] = <<127, 127, 127>>
          /\ trace = <<>>
          /\ ~everOutput
          /\ \A k \in Keys : lastSent[k] = "none"
    /\ key1AtReset = "released" => (hidReady /\ pc \notin {"boot", "reset"})
    /\ key1AtReset = "unread" => pc = "reset"

C11_Witness ==
    /\ key1AtReset = "asserted"
    /\ pc = "boot"
    /\ shown[0] = BootColor

\* Positions of main() inside a cycle, relative to the sampling step of key k.
BeforeSample(k) ==
    pc \in (CASE k = 1 -> {"key1"}
              [] k = 2 -> {"key1", "key2"}
              [] k = 3 -> {"key1", "key2", "key3"})

AfterSample(k) ==
    \/ pc \in {"enc", "wait", "patch", "disp1", "disp2", "disp3", "commit"}
    \/ pc = "key3" /\ k \in {1, 2}
    \/ pc = "key2" /\ k = 1
    \/ CycleEnd

(***************************************************************************)
(* C12 - edge exclusivity: within a cycle the tracked flag of key k keeps  *)
(* its cycle-start value until the key is sampled and equals the sampled   *)
(* level from then on, so it changes at most once per cycle and only when  *)
(* the sampled level differs from the value tracked at the cycle start.    *)
(***************************************************************************)
C12_EdgeExclusivity ==
    \A k \in Keys :
        /\ BeforeSample(k) => keyPressed[k] = pressed0[k]
        /\ AfterSample(k) =>
              /\ keyPressed[k] = Sampled(k)
              /\ (keyPressed[k] # pressed0[k] => Sampled(k) # pressed0[k])

C12_Witness ==
    /\ CycleEnd
    /\ pressed0[1] /\ ~keyPressed[1]
    /\ pressed0[2] /\ keyPressed[2]
    /\ ~pressed0[3] /\ keyPressed[3]

(***************************************************************************)
(* C13 - key 3 is the OR of the key-3 pin and the encoder push-button:     *)
(* after its sampling step key 3 is tracked pressed iff at least one of    *)
(* the two lines was read asserted, and a key-3 edge occurs only when that *)
(* OR differs from the tracked value; with one line still asserted on a    *)
(* key already tracked pressed there is no edge, no dirty mark and no      *)
(* count from key 3.                                                       *)
(***************************************************************************)
C13_Key3IsOrOfPinAndSwitch ==
    /\ AfterSample(3) =>
          /\ keyPressed[3] = (sample.key3 \/ sample.encSw)
          /\ (keyPressed[3] # pressed0[3]) =
                (pressed0[3] # (sample.key3 \/ sample.encSw))
    /\ (/\ pc = "enc"
        /\ pressed0[3]
        /\ sample.key3 \/ sample.encSw
        /\ keyPressed[1] = pressed0[1]
        /\ keyPressed[2] = pressed0[2])
       => (keyPressed[3] /\ ~keyDirty /\ touchCount = 0)

C13_Witness ==
    /\ pc = "enc"
    /\ pressed0[3]
    /\ sample.encSw /\ ~sample.key3
    /\ keyPressed[3]
    /\ ~keyDirty

IsCommit(e) == e.op = "NEO_update"

(***************************************************************************)
(* C14 - LED commit: the step that ends a cycle is one NEO_update call,    *)
(* made after every slot write and report of the cycle (three of each in   *)
(* a dirty cycle, none otherwise) and with no earlier NEO_update in the    *)
(* cycle; no other step of the loop calls NEO_update.                      *)
(***************************************************************************)
C14_LedCommit ==
    [][/\ (pc' = "top" /\ pc \notin {"top", "reset"}) =>
             /\ trace' = Append(trace, UpdateCall)
             /\ \A i \in DOMAIN trace : ~IsCommit(trace[i])
             /\ Len(LedCalls) = (IF keyDirty THEN 3 ELSE 0)
             /\ Len(HidCalls) = (IF keyDirty THEN 3 ELSE 0)
       /\ pc' # "top" => \A i \in DOMAIN trace' : ~IsCommit(trace'[i])
       /\ pc' = "top" =>
             \A i \in DOMAIN trace' : IsCommit(trace'[i]) => i = Len(trace')
      ]_vars

C14_Witness ==
    /\ CycleEnd
    /\ ~keyDirty
    /\ trace = <<UpdateCall>>
    /\ keyPressed[1]
    /\ shown[0] = ActiveColor

(***************************************************************************)
(* C15 - encoder blocking wait: while main() is in the wait it either      *)
(* stays there or leaves to the template patch; no pin other than phase A  *)
(* is sampled, the tracked key flags, touchCount and lampLight keep their  *)
(* values, and no report or LED call is made: the reports of the key edges *)
(* detected before the wait are still undispatched while it lasts.         *)
(***************************************************************************)
C15_EncoderBlockingWait ==
    [][pc = "wait" =>
          /\ pc' \in {"wait", "patch"}
          /\ sample.encA
          /\ trace = <<>>
          /\ trace' = trace
          /\ sample' = sample
          /\ keyPressed' = keyPressed
          /\ touchCount' = touchCount
          /\ lampLight' = lampLight
          /\ pixels' = pixels
          /\ shown' = shown
          /\ lastSent' = lastSent]_vars

C15_Witness ==
    /\ pc = "wait"
    /\ waitPolls > 0
    /\ keyPressed[1] /\ ~pressed0[1]
    /\ keyDirty
    /\ trace = <<>>

(***************************************************************************)
(* C16 - lamp mode update rule: up to the encoder step lampLight has its   *)
(* cycle-start value; after it, lampLight is the negation of the single    *)
(* phase-B sample when phase A was read asserted (true when B is not       *)
(* asserted) and its cycle-start value otherwise; a cycle in which phase A *)
(* was read asserted is dirty from the end of the wait on, also when       *)
(* lampLight kept its value.                                               *)
(***************************************************************************)
C16_LampModeUpdate ==
    /\ pc \in {"key1", "key2", "key3", "enc"} => lampLight = lamp0
    /\ (pc \in {"wait", "patch", "disp1", "disp2", "disp3", "commit"}
            \/ CycleEnd) =>
          IF sample.encA
          THEN lampLight = ~sample.encB
          ELSE lampLight = lamp0
    /\ ((pc \in {"patch", "disp1", "disp2", "disp3", "commit"} \/ CycleEnd)
            /\ sample.encA) => keyDirty

C16_Witness ==
    /\ CycleEnd
    /\ sample.encA
    /\ ~sample.encB
    /\ lampLight /\ lamp0
    /\ keyPressed = pressed0
    /\ keyDirty

\* Phase A, whenever asserted, eventually returns to its rest level.
PhaseAReturnsToRest == []<>(pc # "wait")

KeyChanged(k) == AfterSample(k) /\ keyPressed[k] # pressed0[k]

(***************************************************************************)
(* C17 - progress: if phase A always returns to rest, then once setup has  *)
(* run the loop is at the first sampling step of a new cycle and at the    *)
(* end of a cycle infinitely often, and every key state change recorded    *)
(* by the sampling leads to a report for that key in the same cycle; a     *)
(* loop that stops making progress therefore stays in the encoder wait.    *)
(***************************************************************************)
C17_Progress ==
    /\ PhaseAReturnsToRest =>
          /\ [](hidReady => <>(pc = "key1"))
          /\ [](hidReady => <>CycleEnd)
          /\ \A k \in Keys : [](KeyChanged(k) => <>(ReportsFor(k) # {}))
    /\ [](CycleEnd => \A k \in Keys : KeyChanged(k) => ReportsFor(k) # {})
    /\ [](hidReady => <>(pc = "key1" \/ pc = "wait"))

C17_Witness ==
    /\ CycleEnd
    /\ sample.encA
    /\ waitPolls > 0
    /\ keyPressed[2] /\ ~pressed0[2]
    /\ ReportsFor(2) # {}

(***************************************************************************)
(* C18 - LED frame never stale: whenever the loop is between two cycles    *)
(* (after setup and after every commit, dirty or not) the frame on the     *)
(* strip has, in slot k-1, the active colour iff key k is tracked pressed, *)
(* the ambient colour iff it is not pressed and lampLight is true, and off *)
(* iff it is not pressed and lampLight is false.                           *)
(***************************************************************************)
C18_FrameNeverStale ==
    (pc = "top" /\ hidReady) =>
        \A k \in Keys :
            /\ (shown[k - 1] = <<25, 19, 0>>) = keyPressed[k]
            /\ (shown[k - 1] = <<15, 5, 0>>) = (~keyPressed[k] /\ lampLight)
            /\ (shown[k - 1] = <<0, 0, 0>>) = (~keyPressed[k] /\ ~lampLight)

C18_Witness ==
    /\ CycleEnd
    /\ ~keyDirty
    /\ keyPressed[1] /\ ~keyPressed[2]
    /\ lampLight
    /\ shown[1] = AmbientColor

NewPresses == {k \in Keys : keyPressed[k] /\ ~pressed0[k]}

====
